---- MODULE Spec2Model ----
(***************************************************************************)
(* Model of the twitter-sentiment-analysis pipeline: the scraper and the   *)
(* append insert of etl.py, the table creation and CSV loader of           *)
(* load_sample.py, and the dashboard script streamlit_app.py (engine       *)
(* fallback, query, sample-CSV normalisation, VADER scoring and the        *)
(* sentiment write-back).                                                  *)
(*                                                                         *)
(* A cell of a table is None (SQL NULL / pandas None, NaN) or Some(v).     *)
(* A data frame is [cols |-> sequence of column names, rows |-> sequence   *)
(* of functions from the column names to cells].  A database table is      *)
(* [kind, cols, rows]; kind is "absent", "pk" (created by the DDL of       *)
(* ensure_table: id is the primary key, scraped_at defaults to now()) or   *)
(* "plain" (created by pandas.DataFrame.to_sql from the frame's columns,   *)
(* which declares no key and no default).                                  *)
(***************************************************************************)
EXTENDS Integers, Sequences, FiniteSets, TLC

\* ------------------------------------------------------------- bounds
\* Largest tweet id the scraped source and the sample files carry.
MaxId == 2
\* Longest source sequence the scraper iterates over.
MaxSrc == 2
\* Largest max_tweets argument tried.
MaxN == 2
\* Most rows the tweets table is allowed to grow to.
MaxRows == 2
\* Tweets are created at 1..MaxTime; the clock reads MaxTime throughout.
MaxTime == 1
\* Largest LIMIT tried on a direct call of load_data_from_db.
MaxLimit == 1

\* ------------------------------------------------------------- cells
None == <<>>
Some(v) == <<v>>

Range(s) == {s[i] : i \in DOMAIN s}

Min(a, b) == IF a <= b THEN a ELSE b

\* pd.Timestamp.now() and the store's now().
Now == MaxTime

\* The empty frame pandas builds from no records: no columns, no rows.
EmptyFrame == [cols |-> <<>>, rows |-> <<>>]

HasCol(df, c) == c \in Range(df.cols)

\* DataFrame.empty: any axis of length 0.
IsEmpty(df) == Len(df.cols) = 0 \/ Len(df.rows) = 0

\* The columns of the tweets table, in the order of the DDL.
Cols12 ==
  << "id", "username", "created_at", "text", "lang", "retweet_count",
     "reply_count", "like_count", "quote_count", "scraped_at",
     "sentiment", "sentiment_score" >>

\* The keys of the records scrape_snscrape appends.
ScrapeCols ==
  << "id", "username", "created_at", "text", "lang", "retweet_count",
     "reply_count", "like_count", "quote_count" >>

AbsentTable == [kind |-> "absent", cols |-> <<>>, rows |-> <<>>]

\* CREATE TABLE IF NOT EXISTS tweets (id BIGINT PRIMARY KEY, ...).
ensure_table(tbl) ==
  IF tbl.kind = "absent"
    THEN [kind |-> "pk", cols |-> Cols12, rows |-> <<>>]
    ELSE tbl

\* The value a column takes when an INSERT does not name it.
ColumnDefault(tbl, c, now) ==
  IF tbl.kind = "pk" /\ c = "scraped_at" THEN Some(now) ELSE None

\* One frame row as a row of the table.
PadRow(tbl, dfcols, row, now) ==
  [c \in Range(tbl.cols) |->
     IF c \in Range(dfcols) THEN row[c] ELSE ColumnDefault(tbl, c, now)]

Ids(rows) == {rows[i]["id"] : i \in DOMAIN rows}

\* Would appending new to old break PRIMARY KEY (id): a null id, an id twice
\* in the batch, or an id already stored.
PkBroken(old, new) ==
  \/ \E i \in DOMAIN new : new[i]["id"] = None
  \/ \E i, j \in DOMAIN new : i # j /\ new[i]["id"] = new[j]["id"]
  \/ \E i \in DOMAIN new : new[i]["id"] \in Ids(old)

\* A created_at / scraped_at text that is no timestamp: pandas reads it from
\* the file as a string, pd.to_datetime raises on it and a TIMESTAMP column
\* rejects it.
BadTime == 0

HasBadTime(df) ==
  \E i \in DOMAIN df.rows : \E c \in {"created_at", "scraped_at"} :
     HasCol(df, c) /\ df.rows[i][c] = Some(BadTime)

\* Does the table enforce PRIMARY KEY (id).
EnforcesKey(tbl) == tbl.kind = "pk"

\* DataFrame.to_sql(name, con, if_exists='append', index=False,
\* method='multi'): creates the table from the frame when it is absent, else
\* one INSERT in one transaction.  Result: the table and the exception raised.
to_sql(tbl, df, now) ==
  IF tbl.kind = "absent"
    THEN [tbl |-> [kind |-> "plain", cols |-> df.cols, rows |-> df.rows],
          raised |-> "none"]
  ELSE IF \E c \in Range(df.cols) : c \notin Range(tbl.cols)
    THEN [tbl |-> tbl, raised |-> "ProgrammingError"]
  ELSE IF tbl.kind = "pk" /\ HasBadTime(df)
    THEN [tbl |-> tbl, raised |-> "DataError"]
  ELSE LET new == [i \in DOMAIN df.rows |-> PadRow(tbl, df.cols, df.rows[i], now)]
       IN  IF EnforcesKey(tbl) /\ PkBroken(tbl.rows, new)
             THEN [tbl |-> tbl, raised |-> "IntegrityError"]
             ELSE [tbl |-> [tbl EXCEPT !.rows = tbl.rows \o new],
                   raised |-> "none"]

\* ------------------------------------------------------------ frames
\* df[c] = vals (one value per row): a new column goes last, an existing one
\* is overwritten.
SetCol(df, c, vals) ==
  [cols |-> IF HasCol(df, c) THEN df.cols ELSE Append(df.cols, c),
   rows |-> [i \in DOMAIN df.rows |->
               [k \in Range(df.cols) \cup {c} |->
                  IF k = c THEN vals[i] ELSE df.rows[i][k]]]]

\* df.rename(columns={from: to}): the column keeps its place.
Rename(df, from, to) ==
  [cols |-> [j \in DOMAIN df.cols |->
               IF df.cols[j] = from THEN to ELSE df.cols[j]],
   rows |-> [i \in DOMAIN df.rows |->
               [k \in (Range(df.cols) \ {from}) \cup {to} |->
                  IF k = to THEN df.rows[i][from] ELSE df.rows[i][k]]]]

\* df[cols] with all of cols present.
Select(df, cols) ==
  [cols |-> cols,
   rows |-> [i \in DOMAIN df.rows |-> [k \in Range(cols) |-> df.rows[i][k]]]]

\* The rows whose id is not null, in order.
RECURSIVE WithId(_)
WithId(rows) ==
  IF rows = <<>> THEN <<>>
  ELSE IF Head(rows)["id"] = None THEN WithId(Tail(rows))
  ELSE <<Head(rows)>> \o WithId(Tail(rows))

\* df.dropna(subset=["id"]).
DropNaId(df) == [df EXCEPT !.rows = WithId(df.rows)]

\* -------------------------------------------------------- normalizer
\* load_csv up to the insert: the frame to insert, or the exception raised.
NormalizeCsv(csv, now) ==
  LET d0 == IF HasCol(csv, "label") /\ ~HasCol(csv, "sentiment")
              THEN Rename(csv, "label", "sentiment") ELSE csv
      Seqno == [i \in DOMAIN csv.rows |-> Some(i)]
      NowV == [i \in DOMAIN csv.rows |-> Some(now)]
      NoneV == [i \in DOMAIN csv.rows |-> None]
      Fill(d, c, vals) == IF HasCol(d, c) THEN d ELSE SetCol(d, c, vals)
      d1 == Fill(d0, "id", Seqno)
      d2 == Fill(d1, "created_at", NowV)
      d3 == Fill(d2, "username", NoneV)
      d4 == Fill(d3, "lang", NoneV)
      d5 == Fill(d4, "retweet_count", NoneV)
      d6 == Fill(d5, "reply_count", NoneV)
      d7 == Fill(d6, "like_count", NoneV)
      d8 == Fill(d7, "quote_count", NoneV)
      d9 == Fill(d8, "scraped_at", NowV)
      d10 == Fill(d9, "sentiment_score", NoneV)
  IN  IF \A c \in Range(Cols12) : HasCol(d10, c)
        THEN [df |-> Select(d10, Cols12), raised |-> "none"]
        ELSE [df |-> d10, raised |-> "KeyError"]

\* The columns load_sample_csv fills in when missing, in its loop's order.
SampleCols ==
  << "id", "username", "created_at", "text", "lang", "retweet_count",
     "reply_count", "like_count", "quote_count", "sentiment",
     "sentiment_score" >>

RECURSIVE FillNone(_, _)
FillNone(df, cols) ==
  IF cols = <<>> THEN df
  ELSE LET NoneV == [i \in DOMAIN df.rows |-> None]
           d == IF HasCol(df, Head(cols)) THEN df
                ELSE SetCol(df, Head(cols), NoneV)
       IN  FillNone(d, Tail(cols))

\* load_sample_csv: pd.to_datetime keeps parseable stamps and nulls, and on
\* an unparseable one raises, so that the whole column becomes now.
load_sample_csv(csv, now) ==
  LET d0 == IF HasCol(csv, "label") /\ ~HasCol(csv, "sentiment")
              THEN Rename(csv, "label", "sentiment") ELSE csv
      d1 == FillNone(d0, SampleCols)
      NowV == [i \in DOMAIN d1.rows |-> Some(now)]
  IN  IF \E i \in DOMAIN d1.rows : d1.rows[i]["created_at"] = Some(BadTime)
        THEN SetCol(d1, "created_at", NowV)
        ELSE d1

\* ----------------------------------------------------------- scraper
\* What the search yields for a tweet id: the texts are "I love this!", "bad"
\* and ""; ids 1 and 2 share one timestamp.
TextOf(id) ==
  IF id % 3 = 1 THEN "I love this!" ELSE IF id % 3 = 2 THEN "bad" ELSE ""

CreatedOf(id) == Min((id + 1) \div 2, MaxTime)

\* The record scrape_snscrape builds from one item of the source.
TweetRecord(id) ==
  [c \in Range(ScrapeCols) |->
     CASE c = "id" -> Some(id)
       [] c = "username" -> Some("u")
       [] c = "created_at" -> Some(CreatedOf(id))
       [] c = "text" -> Some(TextOf(id))
       [] c = "lang" -> Some("en")
       [] OTHER -> Some(0)]

\* The sequences of ids a search may yield.
Sources ==
  {s \in UNION {[1..n -> 1..MaxId] : n \in 0..MaxSrc} :
     \A i, j \in DOMAIN s : i # j => s[i] # s[j]}

\* State of the scraping loop: the source, max_tweets, the loop index i, the
\* rows appended, the number of items taken from the iterator, and where
\* control is.
ScrapeStart(items, max) ==
  [items |-> items, max |-> max, i |-> 0, rows |-> <<>>, consumed |-> 0,
   pc |-> "loop"]

\* Is the item just taken past the maximum (the break of the loop).
PastMax(i, max) == i >= max

\* One turn of `for i, tweet in enumerate(...)`: the iterator is asked for
\* the next item; exhausted, the loop ends; else the item is taken, and
\* either the loop breaks or the record is appended.
ScrapeTurn(s) ==
  IF s.i >= Len(s.items)
    THEN [s EXCEPT !.pc = "return"]
  ELSE IF PastMax(s.i, s.max)
    THEN [s EXCEPT !.consumed = @ + 1, !.pc = "return"]
  ELSE [s EXCEPT !.consumed = @ + 1, !.i = @ + 1,
                 !.rows = Append(@, TweetRecord(s.items[s.i + 1]))]

\* pd.DataFrame(rows).
FrameOfRecords(rows) ==
  IF rows = <<>> THEN EmptyFrame ELSE [cols |-> ScrapeCols, rows |-> rows]

RECURSIVE ScrapeRun(_)
ScrapeRun(s) == IF s.pc = "return" THEN s ELSE ScrapeRun(ScrapeTurn(s))

scrape_snscrape(items, max) ==
  FrameOfRecords(ScrapeRun(ScrapeStart(items, max)).rows)

\* load_to_db: the table after, the value returned (-1: none, it raised), the
\* exception, and whether a statement was sent to the store.
load_to_db(tbl, df, now) ==
  IF IsEmpty(df)
    THEN [tbl |-> tbl, ret |-> 0, raised |-> "none", sent |-> FALSE]
    ELSE LET r == to_sql(tbl, df, now)
         IN  [tbl |-> r.tbl,
              ret |-> IF r.raised = "none" THEN Len(df.rows) ELSE -1,
              raised |-> r.raised, sent |-> TRUE]

\* ------------------------------------------------------------ scorer
\* The compound score of the lexicon, in hundredths.
Compound(t) ==
  IF t = "I love this!" THEN 67 ELSE IF t = "bad" THEN -54 ELSE 0

PosThreshold == 5
NegThreshold == -5

vader_sentiment(t) ==
  LET score == Compound(t)
  IN  IF score >= PosThreshold THEN <<"positive", score>>
      ELSE IF score <= NegThreshold THEN <<"negative", score>>
      ELSE <<"neutral", score>>

\* The scored pair written into a row: label and score of its text.
ScoredCells(t) ==
  [label |-> Some(vader_sentiment(t)[1]), score |-> Some(vader_sentiment(t)[2])]

\* Only the label column is assigned.
RunVaderLabelOnly(df) ==
  LET TextAt(i) == IF df.rows[i]["text"] = None THEN "" ELSE df.rows[i]["text"][1]
      Lab == [i \in DOMAIN df.rows |-> Some(vader_sentiment(TextAt(i))[1])]
  IN  SetCol(df, "sentiment", Lab)

\* The Run VADER block: df["text"].fillna("").astype(str), then both columns.
RunVaderOn(df) ==
  LET TextAt(i) == IF df.rows[i]["text"] = None THEN "" ELSE df.rows[i]["text"][1]
      Lab == [i \in DOMAIN df.rows |-> ScoredCells(TextAt(i)).label]
      Sc == [i \in DOMAIN df.rows |-> ScoredCells(TextAt(i)).score]
  IN  SetCol(SetCol(df, "sentiment", Lab), "sentiment_score", Sc)

\* ------------------------------------------------------------- query
\* ORDER BY created_at DESC: a may stand before b (NULLs sort first).
MayPrecede(a, b) ==
  \/ a["created_at"] = None
  \/ b["created_at"] # None /\ a["created_at"][1] >= b["created_at"][1]

Perms(n) == {p \in [1..n -> 1..n] : \A i, j \in 1..n : i # j => p[i] # p[j]}

\* The row sequences SELECT * FROM tweets ORDER BY created_at DESC LIMIT
\* limit may return, before[i, j] telling whether row i may stand before row
\* j: the order of rows that may stand either way is not fixed.
OrderedPrefixes(rows, limit, before) ==
  LET n == Len(rows)
      k == Min(limit, n)
  IN  {[i \in 1..k |-> rows[p[i]]] :
         p \in {q \in Perms(n) :
                  \A i \in 1..n : \A j \in 1..n :
                     i < j => before[q[i], q[j]]}}

QueryResults(rows, limit) ==
  OrderedPrefixes(rows, limit,
                  [i \in DOMAIN rows, j \in DOMAIN rows |->
                     MayPrecede(rows[i], rows[j])])

\* Can the query run: the table exists and has the column it orders by.
Queryable(tbl) == tbl.kind # "absent" /\ HasCol(tbl, "created_at")

\* -------------------------------------------------------- write-back
SentCols == << "id", "sentiment", "sentiment_score" >>

\* The row of src with the id of r.
SrcFor(src, r) == src[CHOOSE i \in DOMAIN src : src[i]["id"] = r["id"]]

\* Rows without a match are dropped instead of inserted.
UnmatchedDropped(src, ids) == <<>>

\* The rows of src whose id is not among ids, in order.
RECURSIVE Unmatched(_, _)
Unmatched(src, ids) ==
  IF src = <<>> THEN <<>>
  ELSE IF Head(src)["id"] \in ids THEN Unmatched(Tail(src), ids)
  ELSE <<Head(src)>> \o Unmatched(Tail(src), ids)

\* The conflicting row is replaced by the proposed one.
ConflictReplace(old, excluded) == excluded

\* The row a conflict leaves: DO UPDATE SET sentiment = EXCLUDED.sentiment,
\* sentiment_score = EXCLUDED.sentiment_score.
ConflictUpdate(old, excluded) ==
  [old EXCEPT !["sentiment"] = excluded["sentiment"],
              !["sentiment_score"] = excluded["sentiment_score"]]

\* INSERT INTO tweets (id, sentiment, sentiment_score) SELECT ... FROM tmp
\* ON CONFLICT (id) DO UPDATE ...: on a table whose ids are unique, with src
\* the rows of the temporary table.
InsertOnConflict(tbl, src, now) ==
  LET upd == [i \in DOMAIN tbl.rows |->
                IF tbl.rows[i]["id"] \in Ids(src)
                  THEN ConflictUpdate(tbl.rows[i], SrcFor(src, tbl.rows[i]))
                  ELSE tbl.rows[i]]
      fresh == Unmatched(src, Ids(tbl.rows))
      ins == [i \in DOMAIN fresh |-> PadRow(tbl, SentCols, fresh[i], now)]
  IN  [tbl EXCEPT !.rows = upd \o ins]

\* The write-back block inside `with engine.begin() as conn`: the tweets table
\* and the session's temporary table after it, and the exception that rolled
\* the transaction back ("none": committed).
WriteBackTx(tw, tmp, df, now) ==
  LET fail(e) == [tweets |-> tw, tmp |-> tmp, raised |-> e, upserted |-> FALSE]
      created == [kind |-> tw.kind, cols |-> tw.cols, rows |-> <<>>]
  IN  IF tw.kind = "absent" \/ tmp.kind # "absent"
        THEN fail("ProgrammingError")
      ELSE IF \E c \in Range(SentCols) : ~HasCol(df, c)
        THEN fail("KeyError")
      ELSE LET updf == DropNaId(Select(df, SentCols))
           IN  IF IsEmpty(updf)
                 THEN [tweets |-> tw, tmp |-> created, raised |-> "none",
                       upserted |-> FALSE]
               ELSE LET filled == to_sql(created, updf, now)
                    IN  IF filled.raised # "none" THEN fail(filled.raised)
                        ELSE IF tw.kind # "pk" THEN fail("ProgrammingError")
                        ELSE [tweets |-> InsertOnConflict(tw, filled.tbl.rows, now),
                              tmp |-> filled.tbl, raised |-> "none",
                              upserted |-> TRUE]

\* --------------------------------------------------------- dashboard
\* make_engine: no engine without a URL or when the test connection fails;
\* err carries the reason.
make_engine(url, reachable) ==
  IF url = None \/ url = Some("")
    THEN [engine |-> "none", err |-> "DATABASE_URL not set"]
  ELSE IF reachable
    THEN [engine |-> "ok", err |-> ""]
  ELSE [engine |-> "none", err |-> "OperationalError"]

\* The values get_database_url may return: no secret and no variable, an
\* empty one, a URL.
Urls == {None, Some(""), Some("postgresql://db")}

\* The columns line 127 of the script selects for display.
ShownCols == {"created_at", "username", "text", "sentiment"}

Displayable(df) == \A c \in ShownCols : HasCol(df, c)

\* The write-back is offered whatever the engine.
CanWriteAlways(engine) == TRUE

\* `if engine is not None` before the write-back.
CanWrite(engine) == engine # "none"

\* The limits the number_input offers: its minimum and its default.
LimitMin == 10
LimitDefault == 500

\* The contents sample_data/labeled_tweets.csv may have: text and label (the
\* shape model_train.py expects), a scored export with ids, text alone.
FileRow(cols, id, txt, lab, sc) ==
  [c \in Range(cols) |->
     CASE c = "id" -> Some(id)
       [] c = "text" -> Some(txt)
       [] c = "sentiment_score" -> Some(sc)
       [] OTHER -> Some(lab)]

LabelledFile ==
  LET cols == << "text", "label" >>
  IN  [cols |-> cols,
       rows |-> << FileRow(cols, 0, "I love this!", "positive", 0),
                   FileRow(cols, 0, "bad", "negative", 0) >>]

ScoredFile ==
  LET cols == << "id", "text", "sentiment", "sentiment_score" >>
  IN  [cols |-> cols, rows |-> << FileRow(cols, 1, "bad", "neutral", 0) >>]

TextOnlyFile ==
  LET cols == << "text" >>
  IN  [cols |-> cols, rows |-> << FileRow(cols, 0, "bad", "", 0) >>]

SampleFiles == {LabelledFile, ScoredFile, TextOnlyFile}

\* ------------------------------------------------------------- state
VARIABLES
  tweets,      \* the tweets table of the store
  tmp,         \* tmp_streamlit_sent on the dashboard's pooled connection
  sampleFile,  \* the frame read from sample_data/labeled_tweets.csv
  last,        \* the operation just performed and how it ended
  dash,        \* the dashboard script run: pc, engine, df, messages
  wb,          \* the latest write-back: its input rows and its outcome
  qry,         \* the latest direct call of load_data_from_db
  scr,         \* the scraping loop of etl.py
  norm         \* the normalizer under test: its input and its outputs

vars == << tweets, tmp, sampleFile, last, dash, wb, qry, scr, norm >>

DashIdle ==
  [pc |-> "idle", engine |-> "none", err |-> "", df |-> EmptyFrame,
   source |-> "none", queryFailed |-> FALSE, shown |-> {}, wrote |-> FALSE]

NoWriteBack == [input |-> <<>>, raised |-> "never"]

NoQuery == [limit |-> 0, rows |-> <<>>, raised |-> "never"]

ScrapeIdle == [ScrapeStart(<<>>, 0) EXCEPT !.pc = "idle"]

NoNorm == [input |-> EmptyFrame, csv |-> [df |-> EmptyFrame, raised |-> "never"],
           sample |-> EmptyFrame, did |-> {}]

Done(op, raised, ret, clash, sent) ==
  [op |-> op, raised |-> raised, ret |-> ret, clash |-> clash, sent |-> sent]

\* Does the batch carry an id that is already stored.
Clashes(tbl, df) ==
  /\ tbl.kind # "absent"
  /\ HasCol(df, "id")
  /\ \E i \in DOMAIN df.rows : df.rows[i]["id"] \in Ids(tbl.rows)

Init ==
  /\ tweets = AbsentTable
  /\ tmp = AbsentTable
  /\ sampleFile \in SampleFiles
  /\ last = Done("init", "none", 0, FALSE, FALSE)
  /\ dash = DashIdle
  /\ wb = NoWriteBack
  /\ qry = NoQuery
  /\ scr = ScrapeIdle
  /\ norm = NoNorm

\* ------------------------------------------------------------- store
\* load_sample.py: ensure_table(engine).
EnsureTable ==
  /\ dash.pc = "idle"
  /\ tweets' = ensure_table(tweets)
  /\ last' = Done("ensure_table", "none", 0, FALSE, TRUE)
  /\ wb' = NoWriteBack
  /\ UNCHANGED << tmp, sampleFile, dash, qry, scr, norm >>

\* load_sample.py: load_csv(path); it returns nothing (-1).
LoadCsv ==
  LET now == Now
      n == NormalizeCsv(sampleFile, now)
      r == IF n.raised = "none" THEN to_sql(tweets, n.df, now)
           ELSE [tbl |-> tweets, raised |-> n.raised]
  IN    /\ dash.pc = "idle"
        /\ Len(r.tbl.rows) <= MaxRows
        /\ tweets' = r.tbl
        /\ last' = Done("load_csv", r.raised, -1,
                        n.raised = "none" /\ Clashes(tweets, n.df),
                        n.raised = "none")
        /\ wb' = NoWriteBack
        /\ UNCHANGED << tmp, sampleFile, dash, qry, scr, norm >>

\* etl.py as a script: df = scrape_snscrape(query, max); load_to_db(df).
EtlMain ==
  \E df \in {scrape_snscrape(items, max) : items \in Sources, max \in 0..MaxN} :
    LET r == load_to_db(tweets, df, Now)
    IN  /\ dash.pc = "idle"
        /\ Len(r.tbl.rows) <= MaxRows
        /\ tweets' = r.tbl
        /\ last' = Done("load_to_db", r.raised, r.ret, Clashes(tweets, df), r.sent)
        /\ wb' = NoWriteBack
        /\ UNCHANGED << tmp, sampleFile, dash, qry, scr, norm >>

\* The pool replaces the dashboard's connection (pool_pre_ping finds it dead):
\* the session's temporary table goes with it.
Reconnect ==
  /\ tmp.kind # "absent"
  /\ tmp' = AbsentTable
  /\ last' = Done("reconnect", "none", 0, FALSE, FALSE)
  /\ UNCHANGED << tweets, sampleFile, dash, wb, qry, scr, norm >>

\* load_data_from_db(engine, limit) called on its own.
QueryRecent ==
  \E limit \in 0..MaxLimit :
    /\ dash.pc = "idle"
    /\ \/ /\ Queryable(tweets)
          /\ \E rows \in QueryResults(tweets.rows, limit) :
               qry' = [limit |-> limit, rows |-> rows, raised |-> "none"]
       \/ /\ ~Queryable(tweets)
          /\ qry' = [limit |-> limit, rows |-> <<>>, raised |-> "ProgrammingError"]
    /\ last' = Done("query", qry'.raised, 0, FALSE, FALSE)
    /\ UNCHANGED << tweets, tmp, sampleFile, dash, wb, scr, norm >>

\* --------------------------------------------------- dashboard script
\* After the data is loaded the script shows df[["created_at", "username",
\* "text", "sentiment"]]; a frame without one of them raises KeyError, which
\* nothing catches.
AfterLoad(d) ==
  [d EXCEPT !.pc = IF Displayable(d.df) THEN "shown" ELSE "crashed"]

\* A run with no engine: the reason is shown and the sample file is read.
DashNoEngine ==
  /\ dash.pc = "idle"
  /\ \E e \in {make_engine(url, reachable) : url \in Urls, reachable \in BOOLEAN} :
       LET now == Now
       IN  /\ e.engine = "none"
           /\ dash' = AfterLoad([DashIdle EXCEPT
                                   !.engine = e.engine, !.err = e.err,
                                   !.shown = {e.err},
                                   !.df = load_sample_csv(sampleFile, now),
                                   !.source = "csv"])
  /\ last' = Done("dash", "none", 0, FALSE, FALSE)
  /\ UNCHANGED << tweets, tmp, sampleFile, wb, qry, scr, norm >>

\* A run whose query succeeds.
DashFromDb ==
  /\ dash.pc = "idle"
  /\ Queryable(tweets)
  /\ \E e \in {make_engine(url, TRUE) : url \in Urls}, limit \in {LimitMin, LimitDefault} :
           /\ e.engine = "ok"
           /\ \E rows \in QueryResults(tweets.rows, limit) :
                dash' = AfterLoad([DashIdle EXCEPT
                                     !.engine = e.engine, !.err = e.err,
                                     !.df = [cols |-> tweets.cols, rows |-> rows],
                                     !.source = "db"])
  /\ last' = Done("dash", "none", 0, FALSE, FALSE)
  /\ UNCHANGED << tweets, tmp, sampleFile, wb, qry, scr, norm >>

\* A run whose query raises (no such table, or the connection fails): the
\* exception is shown and the sample file is read.
DashQueryFails ==
  /\ dash.pc = "idle"
  /\ \E e \in {make_engine(url, TRUE) : url \in Urls}, cause \in {"ProgrammingError", "OperationalError"} :
       LET now == Now
       IN  /\ e.engine = "ok"
           /\ cause = "ProgrammingError" <=> ~Queryable(tweets)
           /\ dash' = AfterLoad([DashIdle EXCEPT
                                   !.engine = e.engine, !.err = e.err,
                                   !.queryFailed = TRUE,
                                   !.shown = {cause},
                                   !.df = load_sample_csv(sampleFile, now),
                                   !.source = "csv"])
  /\ last' = Done("dash", "none", 0, FALSE, FALSE)
  /\ UNCHANGED << tweets, tmp, sampleFile, wb, qry, scr, norm >>

\* The "Run VADER on loaded tweets" button of this run.
RunVader ==
  /\ dash.pc = "shown"
  /\ dash' = [dash EXCEPT !.pc = "scored", !.df = RunVaderOn(dash.df)]
  /\ last' = Done("dash", "none", 0, FALSE, FALSE)
  /\ UNCHANGED << tweets, tmp, sampleFile, wb, qry, scr, norm >>

\* ensure_nltk_vader raises: st.error, then st.stop().
NltkMissing ==
  /\ dash.pc = "shown"
  /\ dash' = [dash EXCEPT !.pc = "stopped", !.shown = @ \cup {"NLTK not installed"}]
  /\ last' = Done("dash", "none", 0, FALSE, FALSE)
  /\ UNCHANGED << tweets, tmp, sampleFile, wb, qry, scr, norm >>

\* The "Write sentiment back to DB" button: the transaction, and the error
\* shown when it raises.
WriteBack ==
  /\ dash.pc = "scored"
  /\ CanWrite(dash.engine)
  /\ LET now == Now
           r == WriteBackTx(tweets, tmp, dash.df, now)
       IN  /\ Len(r.tweets.rows) <= MaxRows
           /\ tweets' = r.tweets
           /\ tmp' = r.tmp
           /\ dash' = [dash EXCEPT
                         !.pc = "done", !.wrote = TRUE,
                         !.shown = IF r.raised = "none" THEN @ ELSE @ \cup {r.raised}]
           /\ wb' = [input |-> IF \A c \in Range(SentCols) : HasCol(dash.df, c)
                                 THEN DropNaId(Select(dash.df, SentCols)).rows
                                 ELSE <<>>,
                     raised |-> r.raised]
           /\ last' = Done("write_back", r.raised, 0, FALSE, TRUE)
  /\ UNCHANGED << sampleFile, qry, scr, norm >>

\* No engine: "DB not configured; skipping DB write."
SkipWrite ==
  /\ dash.pc = "scored"
  /\ ~CanWrite(dash.engine)
  /\ dash' = [dash EXCEPT !.pc = "done"]
  /\ last' = Done("dash", "none", 0, FALSE, FALSE)
  /\ UNCHANGED << tweets, tmp, sampleFile, wb, qry, scr, norm >>

\* The script ends (no button of the rest was pressed, or it stopped or
\* raised); the next interaction runs it again from the top.
DashEnd ==
  /\ dash.pc \in {"shown", "scored", "done", "stopped", "crashed"}
  /\ dash' = DashIdle
  /\ last' = Done("dash", "none", 0, FALSE, FALSE)
  /\ UNCHANGED << tweets, tmp, sampleFile, wb, qry, scr, norm >>

Next ==
  \/ EnsureTable
  \/ LoadCsv
  \/ EtlMain
  \/ Reconnect
  \/ DashNoEngine
  \/ DashFromDb
  \/ DashQueryFails
  \/ RunVader
  \/ NltkMissing
  \/ WriteBack
  \/ SkipWrite
  \/ DashEnd

\* The scripts and the dashboard against one store.  A script run of the
\* dashboard (load, score, write back) is not interleaved with the other
\* scripts: each operation runs to completion before the next begins.
Spec == Init /\ [][Next]_vars

\* The store alone: the scripts of load_sample.py and etl.py, and the query.
NextStore ==
  \/ EnsureTable
  \/ LoadCsv
  \/ EtlMain
  \/ QueryRecent

SpecStore == Init /\ [][NextStore]_vars

\* ================================================================ claims
\* The step that is the write-back of a dashboard run.
WriteBackStep == dash.pc = "scored" /\ dash'.pc = "done" /\ last'.op = "write_back"

\* The rows the write-back hands to the store: id, sentiment, sentiment_score
\* of the rows of df that have an id.
WbInput(df) ==
  IF \A c \in Range(SentCols) : HasCol(df, c)
    THEN DropNaId(Select(df, SentCols)).rows
    ELSE <<>>

\* sentiment is null exactly when sentiment_score is, in every row that has
\* both columns.
Paired(rows) ==
  \A i \in DOMAIN rows :
    ("sentiment" \in DOMAIN rows[i] /\ "sentiment_score" \in DOMAIN rows[i])
      => (rows[i]["sentiment"] = None <=> rows[i]["sentiment_score"] = None)

BothSet(r) ==
  /\ "sentiment" \in DOMAIN r /\ "sentiment_score" \in DOMAIN r
  /\ r["sentiment"] # None /\ r["sentiment_score"] # None

\* C1: in every state reachable by ensure_table, the append inserts and the
\* write-back, no two rows of the tweets table have the same id.
C1_UniqueIds ==
  \A i, j \in DOMAIN tweets.rows :
    i # j => tweets.rows[i]["id"] # tweets.rows[j]["id"]

\* C2 as stated: the write-back never increases the number of rows; an input
\* row whose id matches no stored row creates no row and raises no error.
C2_NeverGrows ==
  [][WriteBackStep =>
       /\ Len(tweets'.rows) <= Len(tweets.rows)
       /\ Ids(tweets'.rows) \subseteq Ids(tweets.rows)
       /\ (tweets.kind = "pk" /\ tmp.kind = "absent") => last'.raised = "none"]_vars

\* C2 as amended: a write-back that commits adds one row for every input id
\* that matches no stored row, carrying the input's id, sentiment and
\* sentiment_score and nothing else but the column defaults; a write-back that
\* raises leaves the table as it was.
C2_GrowsByUnmatched ==
  [][WriteBackStep =>
       LET input == WbInput(dash.df)
           fresh == Ids(input) \ Ids(tweets.rows)
       IN  IF last'.raised = "none"
             THEN /\ Len(tweets'.rows) = Len(tweets.rows) + Cardinality(fresh)
                  /\ Ids(tweets'.rows) = Ids(tweets.rows) \cup Ids(input)
                  /\ \A i \in DOMAIN tweets'.rows :
                       tweets'.rows[i]["id"] \in fresh =>
                         \E k \in DOMAIN input :
                           tweets'.rows[i] = PadRow(tweets, SentCols, input[k], Now)
             ELSE tweets' = tweets]_vars

\* C2 witness: a committed write-back has inserted a row that has no text.
C2_Witness ==
  /\ last.op = "write_back" /\ last.raised = "none"
  /\ tweets.kind = "pk"
  /\ \E i \in DOMAIN tweets.rows :
       tweets.rows[i]["text"] = None /\ tweets.rows[i]["sentiment"] # None

\* C3: an append insert (load_to_db, load_csv) of a batch that carries an id
\* already stored raises the duplicate-key error, returns no count, and leaves
\* the stored rows as they were.
C3_DuplicateKeySurfaced ==
  [][(last'.op \in {"load_to_db", "load_csv"} /\ last'.clash) =>
       /\ last'.raised = "IntegrityError"
       /\ last'.ret = -1
       /\ tweets' = tweets]_vars

\* C4: a write-back changes, in a stored row whose id is in its input, at most
\* sentiment and sentiment_score (to the input's values when it commits), and
\* leaves every other column and every other stored row as it was.
C4_OnlySentimentChanges ==
  [][WriteBackStep =>
       LET input == WbInput(dash.df)
       IN  \A i \in DOMAIN tweets.rows :
             LET old == tweets.rows[i]
                 new == tweets'.rows[i]
             IN  /\ i \in DOMAIN tweets'.rows
                 /\ DOMAIN new = DOMAIN old
                 /\ \A c \in DOMAIN old \ {"sentiment", "sentiment_score"} :
                      new[c] = old[c]
                 /\ old["id"] \notin Ids(input) => new = old
                 /\ (old["id"] \in Ids(input) /\ last'.raised = "none") =>
                      \E k \in DOMAIN input :
                        /\ input[k]["id"] = old["id"]
                        /\ new["sentiment"] = input[k]["sentiment"]
                        /\ new["sentiment_score"] = input[k]["sentiment_score"]]_vars

\* C4 witness: a committed write-back has scored a scraped row, next to which
\* a row it did not touch may stand.
C4_Witness ==
  /\ last.op = "write_back" /\ last.raised = "none"
  /\ tweets.kind = "pk"
  /\ \E i \in DOMAIN tweets.rows :
       /\ tweets.rows[i]["username"] = Some("u")
       /\ tweets.rows[i]["sentiment"] # None

\* C5 as stated: in the normalizer's output, in every stored row and in every
\* row of the dashboard's frame, sentiment is null iff sentiment_score is.
C5_SetTogether == Paired(tweets.rows) /\ Paired(dash.df.rows)

\* C5 as amended: the scorer and the write-back set the two together: every
\* row of the dashboard's frame once Run VADER has run, and every stored row a
\* write-back inserts or changes, has both; rows that come from a file keep
\* what the file gave, a label without a score included.
C5_ScoredTogether ==
  [][/\ dash'.pc \in {"scored", "done"} =>
          \A i \in DOMAIN dash'.df.rows : BothSet(dash'.df.rows[i])
     /\ WriteBackStep =>
          \A i \in DOMAIN tweets'.rows :
            (i \notin DOMAIN tweets.rows \/ tweets'.rows[i] # tweets.rows[i])
              => BothSet(tweets'.rows[i])]_vars

\* C5 witness: after Run VADER a write-back has committed scored rows.
C5_Witness ==
  /\ dash.pc = "done" /\ last.op = "write_back" /\ last.raised = "none"
  /\ dash.df.rows # <<>>
  /\ \E i \in DOMAIN tweets.rows : BothSet(tweets.rows[i])

\* C6: a write-back that follows a committed write-back of the same input
\* rows (here: at least one row), with no other store operation in between,
\* commits too and leaves the table as the first left it.
C6_Idempotent ==
  [][(WriteBackStep /\ wb.raised = "none" /\ wb.input # <<>>
        /\ wb'.input = wb.input) =>
       (wb'.raised = "none" /\ tweets' = tweets)]_vars

PrecedesByIdToo(a, b) ==
  /\ MayPrecede(a, b)
  /\ (a["created_at"] = b["created_at"] /\ a["id"] # None /\ b["id"] # None)
       => a["id"][1] >= b["id"][1]

\* C10: load_data_from_db returns min(limit, row count) rows, the first of the
\* table sorted by created_at descending, ties by id descending.
C10_RecentDeterministic ==
  (last.op = "query" /\ qry.raised = "none") =>
    /\ Len(qry.rows) = Min(qry.limit, Len(tweets.rows))
    /\ qry.rows \in
         OrderedPrefixes(tweets.rows, qry.limit,
                         [i \in DOMAIN tweets.rows, j \in DOMAIN tweets.rows |->
                            PrecedesByIdToo(tweets.rows[i], tweets.rows[j])])

\* ------------------------------------------------- the scraping loop
\* scrape_snscrape step by step, then load_to_db on what it returns.
ScrapeBegin ==
  /\ scr.pc = "idle"
  /\ \E items \in Sources, max \in 0..MaxN : scr' = ScrapeStart(items, max)
  /\ last' = Done("scrape", "none", 0, FALSE, FALSE)
  /\ UNCHANGED << tweets, tmp, sampleFile, dash, wb, qry, norm >>

ScrapeLoop ==
  /\ scr.pc = "loop"
  /\ scr' = ScrapeTurn(scr)
  /\ last' = Done("scrape", "none", 0, FALSE, FALSE)
  /\ UNCHANGED << tweets, tmp, sampleFile, dash, wb, qry, norm >>

ScrapeLoad ==
  /\ scr.pc = "return"
  /\ LET df == FrameOfRecords(scr.rows)
         r == load_to_db(tweets, df, Now)
     IN  /\ Len(r.tbl.rows) <= MaxRows
         /\ tweets' = r.tbl
         /\ last' = Done("load_to_db", r.raised, r.ret, Clashes(tweets, df), r.sent)
  /\ scr' = [scr EXCEPT !.pc = "loaded"]
  /\ UNCHANGED << tmp, sampleFile, dash, wb, qry, norm >>

ScrapeEnd ==
  /\ scr.pc \in {"return", "loaded"}
  /\ scr' = ScrapeIdle
  /\ last' = Done("scrape", "none", 0, FALSE, FALSE)
  /\ UNCHANGED << tweets, tmp, sampleFile, dash, wb, qry, norm >>

NextScrape ==
  \/ EnsureTable
  \/ ScrapeBegin
  \/ ScrapeLoop
  \/ ScrapeLoad
  \/ ScrapeEnd

SpecScrape == Init /\ [][NextScrape]_vars

\* C9: scrape_snscrape returns the first min(L, N) items of the source in
\* order, has taken no more than those from the source when it returns, and an
\* empty result makes load_to_db return 0 without a statement to the store.
C9_StopsAtMax ==
  scr.pc \in {"return", "loaded"} =>
    LET k == Min(Len(scr.items), scr.max)
    IN  /\ scr.rows = [i \in 1..k |-> TweetRecord(scr.items[i])]
        /\ scr.consumed = k
        /\ (scr.pc = "loaded" /\ k = 0) =>
             (last.ret = 0 /\ last.raised = "none" /\ ~last.sent)

\* ---------------------------------------------------- the normalizer
\* Largest number of rows of a file handed to the normalizer.
MaxCsvRows == 1

\* Columns a file may have, in the order the file has them.
FileCols ==
  << "text", "label", "sentiment_score", "sentiment", "created_at", "id",
     "extra" >>

ColsOf(S) == LET In(c) == c \in S IN SelectSeq(FileCols, In)

\* The cell of column c in row i of a file; bad: created_at is no timestamp.
FileCell(c, i, bad) ==
  CASE c = "id" -> Some(i + 1)
    [] c = "created_at" -> IF bad THEN Some(BadTime) ELSE Some(1)
    [] c = "sentiment_score" -> Some(67)
    [] c = "text" -> Some("I love this!")
    [] OTHER -> Some("pos")

NormInputs ==
  {[cols |-> ColsOf(S),
    rows |-> [i \in 1..n |-> [c \in S |-> FileCell(c, i, bad)]]] :
     S \in SUBSET Range(FileCols), n \in 0..MaxCsvRows, bad \in BOOLEAN}

InitNorm ==
  /\ tweets = AbsentTable
  /\ tmp = AbsentTable
  /\ sampleFile \in NormInputs
  /\ last = Done("init", "none", 0, FALSE, FALSE)
  /\ dash = DashIdle
  /\ wb = NoWriteBack
  /\ qry = NoQuery
  /\ scr = ScrapeIdle
  /\ norm = NoNorm

\* load_csv(path) on the file: normalise, then insert.
NormLoadCsv ==
  /\ "csv" \notin norm.did
  /\ LET n == NormalizeCsv(sampleFile, Now)
         r == IF n.raised = "none" THEN to_sql(tweets, n.df, Now)
              ELSE [tbl |-> tweets, raised |-> n.raised]
     IN  /\ tweets' = r.tbl
         /\ norm' = [norm EXCEPT !.input = sampleFile, !.csv = n,
                                 !.did = @ \cup {"csv"}]
         /\ last' = Done("load_csv", r.raised, -1,
                         n.raised = "none" /\ Clashes(tweets, n.df),
                         n.raised = "none")
  /\ UNCHANGED << tmp, sampleFile, dash, wb, qry, scr >>

\* load_sample_csv(path) on the file.
NormLoadSample ==
  /\ "sample" \notin norm.did
  /\ norm' = [norm EXCEPT !.input = sampleFile,
                          !.sample = load_sample_csv(sampleFile, Now),
                          !.did = @ \cup {"sample"}]
  /\ last' = Done("load_sample_csv", "none", 0, FALSE, FALSE)
  /\ UNCHANGED << tweets, tmp, sampleFile, dash, wb, qry, scr >>

NextNorm ==
  \/ EnsureTable
  \/ NormLoadCsv
  \/ NormLoadSample

SpecNorm == InitNorm /\ [][NextNorm]_vars

\* What the canonical table of a file holds in column c of row i.
CanonicalCell(csv, c, i, now) ==
  LET from == IF c = "sentiment" /\ ~HasCol(csv, "sentiment") THEN "label" ELSE c
  IN  IF HasCol(csv, from) THEN csv.rows[i][from]
      ELSE IF c = "id" THEN Some(i)
      ELSE IF c \in {"created_at", "scraped_at"} THEN Some(now)
      ELSE None

Canonical(csv, now) ==
  [cols |-> Cols12,
   rows |-> [i \in DOMAIN csv.rows |->
               [c \in Range(Cols12) |-> CanonicalCell(csv, c, i, now)]]]

\* C7: for every file with a text column the normalizer (load_csv, and
\* load_sample_csv) returns the canonical columns in canonical order, absent
\* ones null but for id (1, 2, ...) and created_at / scraped_at (now), label
\* taken for sentiment when sentiment is absent.
C7_CanonicalColumns ==
  HasCol(norm.input, "text") =>
    /\ "csv" \in norm.did =>
         (norm.csv.raised = "none" /\ norm.csv.df = Canonical(norm.input, Now))
    /\ "sample" \in norm.did => norm.sample.cols = Cols12
====
